---- MODULE Spec2Model ----
(***************************************************************************)
(* Multi-key Gemini dispatcher of backend/src/core/gemini_client.py:       *)
(* the shared key pool, key rotation, the global exhaustion flag, and the  *)
(* gemini-then-fallback step of the pipeline stages that call it.          *)
(*                                                                         *)
(* Each caller is one pipeline stage holding its own GeminiClient          *)
(* instance; the pool, the key index, the failure counts and the           *)
(* exhaustion flag are class attributes shared by all instances.           *)
(***************************************************************************)
EXTENDS Integers, Sequences, FiniteSets, TLC

\* ---------------------------------------------------------------- bounds
\* Number of pipeline stages (client instances) that make calls.
NumCallers == 2
\* Failure counts are unbounded in the code and are never read by the
\* control flow; the model stops counting at this value.
MaxFailures == 2
\* Largest pool explored when calls run on several threads.
MaxPoolConc == 2
\* Largest max_retries argument explored.
MaxRetriesArg == 4

\* ------------------------------------------------------ program constants
\* PRIMARY plus BACKUP_1..BACKUP_3 (_load_api_keys).
MaxPool == 4
\* Default of call_with_retry's max_retries parameter; no caller overrides it.
max_retries == 3

KeyNames == <<"PRIMARY", "BACKUP_1", "BACKUP_2", "BACKUP_3">>

Callers == 1..NumCallers

\* Caller 1 is the intent stage (GeminiClient.parse_intent); the others are
\* phase stages that call call_with_retry themselves (phase 2's process).
Stage(c) == IF c = 1 THEN "parse_intent" ELSE "phase_process"

VARIABLES
    _api_keys_loaded,      \* sequence of key names, insertion order
    _shared_clients,       \* key name -> TRUE (client object) / FALSE (None)
    _shared_key_failures,  \* key name -> failure count
    _shared_key_index,     \* 0-based index of the current key
    _all_keys_exhausted,   \* the global exhaustion flag
    inst,                  \* caller -> has constructed its GeminiClient
    pc,                    \* caller -> position in the call
    attempt,               \* caller -> loop variable of call_with_retry
    client,                \* caller -> key whose client was selected (line 147)
    key_name,              \* caller -> key name read at line 155
    last_error,            \* caller -> last exception caught in this call
    outcome,               \* caller -> what the remote call in flight produced
    dispatch,              \* caller -> how call_with_retry ended
    result,                \* caller -> what the stage's step returned
    log,                   \* caller -> events of the current call, in order
    start,                 \* caller -> shared state seen when the call began
    rot,                   \* caller -> locals of _rotate_to_next_key in progress
    retries                \* caller -> max_retries argument of its latest call

shared == <<_api_keys_loaded, _shared_clients, _shared_key_failures,
            _shared_key_index, _all_keys_exhausted>>
locals == <<pc, attempt, client, key_name, last_error, outcome, dispatch,
            result, log, start, rot, retries>>
vars == <<shared, inst, locals>>

\* ----------------------------------------------------------------- values
NoError == [kind |-> "none", key |-> "none"]
NoDispatch == [kind |-> "none", val |-> "none", err |-> NoError]
NoResult == [source |-> "none", active_key |-> "none"]
NoStart == [index |-> 0, exhausted |-> FALSE]
\* No rotation in progress: original_key, loop iterations left, call site.
NoRot == [original |-> "none", left |-> 0, site |-> "none"]

Event(e, k, i, n) == [ev |-> e, key |-> k, info |-> i, n |-> n]

\* Error raised at line 137 / 145.
ExhaustedGlobalError == [kind |-> "exhausted_global", key |-> "none"]
\* Error raised at line 187.
ExhaustedError == [kind |-> "exhausted", key |-> "none"]
\* Error raised at line 201 when no exception was caught.
AllRetriesFailedError == [kind |-> "all_retries_failed", key |-> "none"]
\* Exception thrown by generate_content on key k: a 429 / RESOURCE_EXHAUSTED
\* message ("quota") or any other message ("error").
RemoteError(o, k) == [kind |-> o, key |-> k]

\* ------------------------------------------------------- pure helpers
\* self._get_key_name_at(index)
_get_key_name_at(index) ==
    IF 0 <= index /\ index < Len(_api_keys_loaded)
    THEN _api_keys_loaded[index + 1]
    ELSE "UNKNOWN"

\* self._get_current_key_name()
_get_current_key_name ==
    IF _shared_key_index < Len(_api_keys_loaded)
    THEN _api_keys_loaded[_shared_key_index + 1]
    ELSE "UNKNOWN"

\* self.clients.get(name) is not None
HasClient(name) ==
    IF name \in DOMAIN _shared_clients THEN _shared_clients[name] ELSE FALSE

\* self._get_current_client(): the key whose client object is returned,
\* "None" when clients.get() yields None.
_get_current_client_any == _get_current_key_name

_get_current_client ==
    IF HasClient(_get_current_key_name) THEN _get_current_key_name ELSE "None"

\* The for-loop of _rotate_to_next_key: i iterations left, index at idx.
RECURSIVE RotateScan(_, _, _)
RotateScan(idx, i, original_key) ==
    IF i <= 0
    THEN [index |-> idx, found |-> FALSE]
    ELSE LET nidx == (idx + 1) % Len(_api_keys_loaded)
             name == _get_key_name_at(nidx)
         IN  IF HasClient(name) /\ name # original_key
             THEN [index |-> nidx, found |-> TRUE]
             ELSE RotateScan(nidx, i - 1, original_key)

\* self._rotate_to_next_key(): the index it leaves in the shared state and
\* the boolean it returns.
_rotate_to_next_key_local ==
    [index |-> _shared_key_index,
     found |-> Len(_api_keys_loaded) # 1
               /\ RotateScan(_shared_key_index, Len(_api_keys_loaded) - 1,
                             _get_key_name_at(_shared_key_index)).found]

_rotate_to_next_key_single ==
    IF Len(_api_keys_loaded) = 1
    THEN [index |-> _shared_key_index, found |-> TRUE]
    ELSE RotateScan(_shared_key_index, Len(_api_keys_loaded) - 1,
                    _get_key_name_at(_shared_key_index))

_rotate_to_next_key_short ==
    IF Len(_api_keys_loaded) = 1
    THEN [index |-> _shared_key_index, found |-> FALSE]
    ELSE RotateScan(_shared_key_index, Len(_api_keys_loaded) - 2,
                    _get_key_name_at(_shared_key_index))

_rotate_to_next_key ==
    IF Len(_api_keys_loaded) = 1
    THEN [index |-> _shared_key_index, found |-> FALSE]
    ELSE RotateScan(_shared_key_index, Len(_api_keys_loaded) - 1,
                    _get_key_name_at(_shared_key_index))

\* "429" in error_str or "RESOURCE_EXHAUSTED" in error_str
IsQuota_any(o) == TRUE

IsQuota(o) == o = "quota"

\* The value of GeminiClient._all_keys_exhausted as read at lines 135, 143.
AllKeysExhausted_unread == FALSE

AllKeysExhausted == _all_keys_exhausted

\* Line 186: GeminiClient._all_keys_exhausted = True, whatever it was.
Trip_toggle(flag) == ~flag

Trip(flag) == TRUE

\* 2 ** attempt, the base of the backoff delay (the jitter is not modelled).
RECURSIVE Pow2(_)
Pow2(n) == IF n = 0 THEN 1 ELSE 2 * Pow2(n - 1)

\* key_failures.get(name, 0) + 1, counted up to MaxFailures.
Bump(f, name) ==
    LET old == IF name \in DOMAIN f THEN f[name] ELSE 0
        new == IF old < MaxFailures THEN old + 1 ELSE old
    IN  [k \in DOMAIN f \cup {name} |-> IF k = name THEN new ELSE f[k]]

\* key_failures[name] = 0
Reset_decrement(f, name) ==
    [k \in DOMAIN f \cup {name} |->
        IF k = name THEN (IF f[k] > 0 THEN f[k] - 1 ELSE 0) ELSE f[k]]

Reset(f, name) ==
    [k \in DOMAIN f \cup {name} |-> IF k = name THEN 0 ELSE f[k]]

\* What the stage returns when its gemini step raised: parse_intent's
\* enhanced mock tagged MOCK_FALLBACK, a phase's rule-based selection, whose
\* metadata reads active_key with the default "unknown".
Fallback_stale_key(c) ==
    IF Stage(c) = "parse_intent"
    THEN [source |-> "enhanced_mock", active_key |-> _get_current_key_name]
    ELSE [source |-> "rule_fallback", active_key |-> "unknown"]

Fallback(c) ==
    IF Stage(c) = "parse_intent"
    THEN [source |-> "enhanced_mock", active_key |-> "MOCK_FALLBACK"]
    ELSE [source |-> "rule_fallback", active_key |-> "unknown"]

\* The stage's handler around its gemini step, "except Exception as e":
\* whatever call_with_retry raised, the fallback's result is returned.
StageExcept_narrow(c, err) ==
    IF err.kind \in {"exhausted", "exhausted_global"}
    THEN Fallback(c)
    ELSE [source |-> "exception", active_key |-> "none"]

StageExcept(c, err) == Fallback(c)

\* What the stage returns when the response was parsed and validated.
Remote(c) == [source |-> "gemini_api", active_key |-> _get_current_key_name]

\* ---------------------------------------------------------------- Init
\* State after the class body has run and before any instance exists.
Init ==
    /\ _api_keys_loaded = <<>>
    /\ _shared_clients = <<>>
    /\ _shared_key_failures = <<>>
    /\ _shared_key_index = 0
    /\ _all_keys_exhausted = FALSE
    /\ inst = [c \in Callers |-> FALSE]
    /\ pc = [c \in Callers |-> "idle"]
    /\ attempt = [c \in Callers |-> 0]
    /\ client = [c \in Callers |-> "None"]
    /\ key_name = [c \in Callers |-> "None"]
    /\ last_error = [c \in Callers |-> NoError]
    /\ outcome = [c \in Callers |-> "none"]
    /\ dispatch = [c \in Callers |-> NoDispatch]
    /\ result = [c \in Callers |-> NoResult]
    /\ log = [c \in Callers |-> <<>>]
    /\ start = [c \in Callers |-> NoStart]
    /\ rot = [c \in Callers |-> NoRot]
    /\ retries = [c \in Callers |-> max_retries]

\* No other caller is inside a call: the stages of a request run one after
\* the other and call_with_retry never yields to the event loop.
Quiet(c) == \A d \in Callers \ {c} : pc[d] = "idle"

\* -------------------------------------------------------------- actions
\* GeminiClient.__init__: the first instance loads the keys found in the
\* environment and builds one client per key; later instances share them.
\* The environment is fixed: once an instance has found no key, none finds one.
Construct_rewinds(c) ==
    /\ ~inst[c]
    /\ pc[c] = "idle"
    /\ inst' = [inst EXCEPT ![c] = TRUE]
    /\ IF _api_keys_loaded = <<>>
       THEN \E n \in (IF \E d \in Callers : inst[d] THEN {0} ELSE 0..MaxPool) :
            \E ok \in [{KeyNames[i] : i \in 1..n} -> BOOLEAN] :
               /\ _api_keys_loaded' = SubSeq(KeyNames, 1, n)
               /\ _shared_key_failures' = [k \in DOMAIN ok |-> 0]
               /\ _shared_clients' = ok
       ELSE UNCHANGED <<_api_keys_loaded, _shared_key_failures, _shared_clients>>
    /\ _shared_key_index' = 0
    /\ UNCHANGED <<_all_keys_exhausted, locals>>

Construct_resets(c) ==
    /\ ~inst[c]
    /\ pc[c] = "idle"
    /\ inst' = [inst EXCEPT ![c] = TRUE]
    /\ IF _api_keys_loaded = <<>>
       THEN \E n \in (IF \E d \in Callers : inst[d] THEN {0} ELSE 0..MaxPool) :
            \E ok \in [{KeyNames[i] : i \in 1..n} -> BOOLEAN] :
               /\ _api_keys_loaded' = SubSeq(KeyNames, 1, n)
               /\ _shared_key_failures' = [k \in DOMAIN ok |-> 0]
               /\ _shared_clients' = ok
       ELSE UNCHANGED <<_api_keys_loaded, _shared_key_failures, _shared_clients>>
    /\ _all_keys_exhausted' = FALSE
    /\ UNCHANGED <<_shared_key_index, locals>>

Construct(c) ==
    /\ ~inst[c]
    /\ pc[c] = "idle"
    /\ inst' = [inst EXCEPT ![c] = TRUE]
    /\ IF _api_keys_loaded = <<>>
       THEN \E n \in (IF \E d \in Callers : inst[d] THEN {0} ELSE 0..MaxPool) :
            \E ok \in [{KeyNames[i] : i \in 1..n} -> BOOLEAN] :
               /\ _api_keys_loaded' = SubSeq(KeyNames, 1, n)
               /\ _shared_key_failures' = [k \in DOMAIN ok |-> 0]
               /\ _shared_clients' = ok
       ELSE UNCHANGED <<_api_keys_loaded, _shared_key_failures, _shared_clients>>
    /\ UNCHANGED <<_shared_key_index, _all_keys_exhausted, locals>>

\* call_with_retry(prompt, max_retries) is entered (lines 132-139): the
\* fast path reads the flag.
CallWithRetry(c, r) ==
    /\ inst[c]
    /\ pc[c] = "idle"
    /\ log' = [log EXCEPT ![c] = <<>>]
    /\ start' = [start EXCEPT ![c] = [index |-> _shared_key_index,
                                      exhausted |-> _all_keys_exhausted]]
    /\ last_error' = [last_error EXCEPT ![c] = NoError]
    /\ attempt' = [attempt EXCEPT ![c] = 0]
    /\ IF AllKeysExhausted
       THEN /\ dispatch' = [dispatch EXCEPT ![c] =
                   [kind |-> "error", val |-> "none", err |-> ExhaustedGlobalError]]
            /\ pc' = [pc EXCEPT ![c] = "raised"]
       ELSE /\ dispatch' = [dispatch EXCEPT ![c] = NoDispatch]
            /\ pc' = [pc EXCEPT ![c] = "loop"]
    /\ retries' = [retries EXCEPT ![c] = r]
    /\ UNCHANGED <<shared, inst, rot, client, key_name, outcome, result>>

\* A stage starts its gemini step and enters call_with_retry (lines 132-139).
Invoke_rotates(c) ==
    /\ inst[c]
    /\ pc[c] = "idle"
    /\ log' = [log EXCEPT ![c] = <<>>]
    /\ start' = [start EXCEPT ![c] = [index |-> _shared_key_index,
                                      exhausted |-> _all_keys_exhausted]]
    /\ last_error' = [last_error EXCEPT ![c] = NoError]
    /\ attempt' = [attempt EXCEPT ![c] = 0]
    /\ IF AllKeysExhausted
       THEN /\ dispatch' = [dispatch EXCEPT ![c] =
                   [kind |-> "error", val |-> "none", err |-> ExhaustedGlobalError]]
            /\ pc' = [pc EXCEPT ![c] = "raised"]
       ELSE /\ dispatch' = [dispatch EXCEPT ![c] = NoDispatch]
            /\ pc' = [pc EXCEPT ![c] = "loop"]
    /\ _shared_key_index' = _rotate_to_next_key.index
    /\ UNCHANGED <<_api_keys_loaded, _shared_clients, _shared_key_failures,
                   _all_keys_exhausted, inst, rot, retries, client, key_name, outcome, result>>

Invoke(c) == CallWithRetry(c, max_retries)

\* Lines 199-201: the for loop ran max_retries times.
LoopExit_generic(c) ==
    /\ pc[c] = "loop"
    /\ attempt[c] >= retries[c]
    /\ dispatch' = [dispatch EXCEPT ![c] =
          [kind |-> "error", val |-> "none", err |-> AllRetriesFailedError]]
    /\ pc' = [pc EXCEPT ![c] = "raised"]
    /\ UNCHANGED <<shared, inst, rot, retries, attempt, client, key_name,
                   last_error, outcome, result, log, start>>

LoopExit(c) ==
    /\ pc[c] = "loop"
    /\ attempt[c] >= retries[c]
    /\ dispatch' = [dispatch EXCEPT ![c] =
          [kind |-> "error", val |-> "none",
           err |-> IF last_error[c] # NoError THEN last_error[c]
                   ELSE AllRetriesFailedError]]
    /\ pc' = [pc EXCEPT ![c] = "raised"]
    /\ UNCHANGED <<shared, inst, rot, retries, attempt, client, key_name, last_error,
                   outcome, result, log, start>>

\* One iteration head of the for loop, lines 141-152: re-check the flag;
\* take the current key's client; when it is None rotate and continue.
LoopHead_trips(c) ==
    /\ pc[c] = "loop"
    /\ attempt[c] < retries[c]
    /\ IF AllKeysExhausted
       THEN /\ dispatch' = [dispatch EXCEPT ![c] =
                  [kind |-> "error", val |-> "none", err |-> ExhaustedGlobalError]]
            /\ pc' = [pc EXCEPT ![c] = "raised"]
            /\ UNCHANGED <<_shared_key_index, _all_keys_exhausted, log,
                           attempt, client>>
       ELSE IF _get_current_client = "None"
       THEN /\ _shared_key_index' = _rotate_to_next_key.index
            /\ log' = [log EXCEPT ![c] =
                  Append(@, Event("skip", _get_current_key_name, "none",
                                  attempt[c]))]
            /\ IF _rotate_to_next_key.found
               THEN /\ attempt' = [attempt EXCEPT ![c] = @ + 1]
                    /\ UNCHANGED <<pc, dispatch, _all_keys_exhausted>>
               ELSE /\ _all_keys_exhausted' = TRUE
                    /\ dispatch' = [dispatch EXCEPT ![c] =
                          [kind |-> "error", val |-> "none",
                           err |-> ExhaustedError]]
                    /\ pc' = [pc EXCEPT ![c] = "raised"]
                    /\ UNCHANGED attempt
            /\ UNCHANGED client
       ELSE /\ client' = [client EXCEPT ![c] = _get_current_client]
            /\ pc' = [pc EXCEPT ![c] = "try"]
            /\ UNCHANGED <<_shared_key_index, _all_keys_exhausted, log,
                           attempt, dispatch>>
    /\ UNCHANGED <<_api_keys_loaded, _shared_clients, _shared_key_failures,
                   inst, rot, retries, key_name, last_error, outcome, result,
                   start>>

LoopHead(c) ==
    /\ pc[c] = "loop"
    /\ attempt[c] < retries[c]
    /\ IF AllKeysExhausted
       THEN /\ dispatch' = [dispatch EXCEPT ![c] =
                  [kind |-> "error", val |-> "none", err |-> ExhaustedGlobalError]]
            /\ pc' = [pc EXCEPT ![c] = "raised"]
            /\ UNCHANGED <<_shared_key_index, log, attempt, client>>
       ELSE IF _get_current_client = "None"
       THEN /\ _shared_key_index' = _rotate_to_next_key.index
            /\ log' = [log EXCEPT ![c] =
                  Append(@, Event("skip", _get_current_key_name, "none",
                                  attempt[c]))]
            /\ attempt' = [attempt EXCEPT ![c] = @ + 1]
            /\ UNCHANGED <<pc, client, dispatch>>
       ELSE /\ client' = [client EXCEPT ![c] = _get_current_client]
            /\ pc' = [pc EXCEPT ![c] = "try"]
            /\ UNCHANGED <<_shared_key_index, log, attempt, dispatch>>
    /\ UNCHANGED <<_api_keys_loaded, _shared_clients, _shared_key_failures,
                   _all_keys_exhausted, inst, rot, retries, key_name, last_error, outcome,
                   result, start>>

\* Line 155: key_name = self._get_current_key_name()
ReadKeyName(c) ==
    /\ pc[c] = "try"
    /\ key_name' = [key_name EXCEPT ![c] = _get_current_key_name]
    /\ pc' = [pc EXCEPT ![c] = "call"]
    /\ UNCHANGED <<shared, inst, rot, retries, attempt, client, last_error, outcome,
                   dispatch, result, log, start>>

\* Lines 158-167: the remote call through the selected client returns a
\* response, raises a quota error or raises another error.
RemoteCall(c) ==
    /\ pc[c] = "call"
    /\ \E o \in {"success", "quota", "error"} :
          /\ outcome' = [outcome EXCEPT ![c] = o]
          /\ log' = [log EXCEPT ![c] = Append(@, Event("attempt", client[c], o,
                                                       attempt[c]))]
          /\ pc' = [pc EXCEPT ![c] = IF o = "success" THEN "ok" ELSE "except"]
    /\ UNCHANGED <<shared, inst, rot, retries, attempt, client, key_name, last_error,
                   dispatch, result, start>>

\* Lines 169-172: reset the failure count and return the response.
OnSuccess(c) ==
    /\ pc[c] = "ok"
    /\ _shared_key_failures' = Reset(_shared_key_failures, key_name[c])
    /\ dispatch' = [dispatch EXCEPT ![c] =
          [kind |-> "response", val |-> client[c], err |-> NoError]]
    /\ pc' = [pc EXCEPT ![c] = "returned"]
    /\ UNCHANGED <<_api_keys_loaded, _shared_clients, _shared_key_index,
                   _all_keys_exhausted, inst, rot, retries, attempt, client, key_name,
                   last_error, outcome, result, log, start>>

\* Lines 174-180 and 194-197: record the failure and classify the error;
\* a non-quota error is re-raised at once.
OnException_quota_only(c) ==
    /\ pc[c] = "except"
    /\ last_error' = [last_error EXCEPT ![c] = RemoteError(outcome[c], client[c])]
    /\ IF IsQuota(outcome[c])
       THEN /\ _shared_key_failures' = Bump(_shared_key_failures, key_name[c])
            /\ pc' = [pc EXCEPT ![c] = "rotate"]
            /\ UNCHANGED dispatch
       ELSE /\ dispatch' = [dispatch EXCEPT ![c] =
                  [kind |-> "error", val |-> "none",
                   err |-> RemoteError(outcome[c], client[c])]]
            /\ pc' = [pc EXCEPT ![c] = "raised"]
            /\ UNCHANGED _shared_key_failures
    /\ UNCHANGED <<_api_keys_loaded, _shared_clients, _shared_key_index,
                   _all_keys_exhausted, inst, rot, retries, attempt, client,
                   key_name, outcome, result, log, start>>

OnException_disables(c) ==
    /\ pc[c] = "except"
    /\ last_error' = [last_error EXCEPT ![c] = RemoteError(outcome[c], client[c])]
    /\ _shared_key_failures' = Bump(_shared_key_failures, key_name[c])
    /\ IF IsQuota(outcome[c])
       THEN /\ pc' = [pc EXCEPT ![c] = "rotate"]
            /\ UNCHANGED dispatch
       ELSE /\ dispatch' = [dispatch EXCEPT ![c] =
                  [kind |-> "error", val |-> "none",
                   err |-> RemoteError(outcome[c], client[c])]]
            /\ pc' = [pc EXCEPT ![c] = "raised"]
    /\ _shared_clients' = IF IsQuota(outcome[c])
                          THEN [_shared_clients EXCEPT ![client[c]] = FALSE]
                          ELSE _shared_clients
    /\ UNCHANGED <<_api_keys_loaded, _shared_key_index,
                   _all_keys_exhausted, inst, rot, retries, attempt, client, key_name,
                   outcome, result, log, start>>

OnException(c) ==
    /\ pc[c] = "except"
    /\ last_error' = [last_error EXCEPT ![c] = RemoteError(outcome[c], client[c])]
    /\ _shared_key_failures' = Bump(_shared_key_failures, key_name[c])
    /\ IF IsQuota(outcome[c])
       THEN /\ pc' = [pc EXCEPT ![c] = "rotate"]
            /\ UNCHANGED dispatch
       ELSE /\ dispatch' = [dispatch EXCEPT ![c] =
                  [kind |-> "error", val |-> "none",
                   err |-> RemoteError(outcome[c], client[c])]]
            /\ pc' = [pc EXCEPT ![c] = "raised"]
    /\ UNCHANGED <<_api_keys_loaded, _shared_clients, _shared_key_index,
                   _all_keys_exhausted, inst, rot, retries, attempt, client, key_name,
                   outcome, result, log, start>>

\* Lines 183-187: rotate; when no key is found set the flag and raise.
Rotate(c) ==
    /\ pc[c] = "rotate"
    /\ LET r == _rotate_to_next_key
       IN  /\ _shared_key_index' = r.index
           /\ log' = [log EXCEPT ![c] =
                 Append(@, Event("rotate", _get_current_key_name,
                                 _get_key_name_at(r.index),
                                 IF r.found THEN 1 ELSE 0))]
           /\ IF r.found
              THEN /\ pc' = [pc EXCEPT ![c] = "sleep"]
                   /\ UNCHANGED <<_all_keys_exhausted, dispatch>>
              ELSE /\ _all_keys_exhausted' = Trip(_all_keys_exhausted)
                   /\ dispatch' = [dispatch EXCEPT ![c] =
                         [kind |-> "error", val |-> "none", err |-> ExhaustedError]]
                   /\ pc' = [pc EXCEPT ![c] = "raised"]
    /\ UNCHANGED <<_api_keys_loaded, _shared_clients, _shared_key_failures,
                   inst, rot, retries, attempt, client, key_name, last_error, outcome,
                   result, start>>

\* Lines 189-192: sleep 2 ** attempt plus jitter, then the next iteration.
Backoff_nocount(c) ==
    /\ pc[c] = "sleep"
    /\ log' = [log EXCEPT ![c] = Append(@, Event("sleep", "none", "none",
                                                 Pow2(attempt[c])))]
    /\ pc' = [pc EXCEPT ![c] = "loop"]
    /\ UNCHANGED <<shared, inst, rot, retries, attempt, client, key_name,
                   last_error, outcome, dispatch, result, start>>

Backoff(c) ==
    /\ pc[c] = "sleep"
    /\ log' = [log EXCEPT ![c] = Append(@, Event("sleep", "none", "none",
                                                 Pow2(attempt[c])))]
    /\ attempt' = [attempt EXCEPT ![c] = @ + 1]
    /\ pc' = [pc EXCEPT ![c] = "loop"]
    /\ UNCHANGED <<shared, inst, rot, retries, client, key_name, last_error, outcome,
                   dispatch, result, start>>

\* The stage got a response: it is parsed and validated, and the stage
\* falls back when that fails (parse_intent 214-222, process 131-135).
StageResponse(c) ==
    /\ pc[c] = "returned"
    /\ \E valid \in BOOLEAN :
          result' = [result EXCEPT ![c] = IF valid THEN Remote(c) ELSE Fallback(c)]
    /\ pc' = [pc EXCEPT ![c] = "done"]
    /\ UNCHANGED <<shared, inst, rot, retries, attempt, client, key_name, last_error,
                   outcome, dispatch, log, start>>

\* call_with_retry raised: the stage's except clause takes the fallback.
StageFallback(c) ==
    /\ pc[c] = "raised"
    /\ result' = [result EXCEPT ![c] = StageExcept(c, dispatch[c].err)]
    /\ pc' = [pc EXCEPT ![c] = "done"]
    /\ UNCHANGED <<shared, inst, rot, retries, attempt, client, key_name, last_error,
                   outcome, dispatch, log, start>>

\* The stage hands its result to the pipeline; the call's locals die.
Return(c) ==
    /\ pc[c] = "done"
    /\ pc' = [pc EXCEPT ![c] = "idle"]
    /\ attempt' = [attempt EXCEPT ![c] = 0]
    /\ client' = [client EXCEPT ![c] = "None"]
    /\ key_name' = [key_name EXCEPT ![c] = "None"]
    /\ last_error' = [last_error EXCEPT ![c] = NoError]
    /\ outcome' = [outcome EXCEPT ![c] = "none"]
    /\ dispatch' = [dispatch EXCEPT ![c] = NoDispatch]
    /\ result' = [result EXCEPT ![c] = NoResult]
    /\ log' = [log EXCEPT ![c] = <<>>]
    /\ start' = [start EXCEPT ![c] = NoStart]
    /\ UNCHANGED <<shared, inst, rot, retries>>

\* One call at a time.
ConstructSeq(c) == Quiet(c) /\ Construct(c)
InvokeSeq(c) == Quiet(c) /\ Invoke(c)

Next ==
    \E c \in Callers :
        \/ ConstructSeq(c)
        \/ InvokeSeq(c)
        \/ LoopExit(c)
        \/ LoopHead(c)
        \/ ReadKeyName(c)
        \/ RemoteCall(c)
        \/ OnSuccess(c)
        \/ OnException(c)
        \/ Rotate(c)
        \/ Backoff(c)
        \/ StageResponse(c)
        \/ StageFallback(c)
        \/ Return(c)

Spec == Init /\ [][Next]_vars

\* Calls keep being made and every step of a call is eventually taken.
FairSpec == Spec /\ WF_vars(Next)

\* ------------------------------------- calls with any max_retries argument
\* max_retries is a parameter of call_with_retry (line 132): a caller may
\* pass any number of iterations.
InvokeAnySeq(c) ==
    /\ Quiet(c)
    /\ \E r \in 0..MaxRetriesArg : CallWithRetry(c, r)

NextRetries ==
    \E c \in Callers :
        \/ ConstructSeq(c)
        \/ InvokeAnySeq(c)
        \/ LoopExit(c)
        \/ LoopHead(c)
        \/ ReadKeyName(c)
        \/ RemoteCall(c)
        \/ OnSuccess(c)
        \/ OnException(c)
        \/ Rotate(c)
        \/ Backoff(c)
        \/ StageResponse(c)
        \/ StageFallback(c)
        \/ Return(c)

SpecRetries == Init /\ [][NextRetries]_vars

\* ------------------------------------------------ calls on several threads
\* The pool state is class-level and no lock guards it (lines 31-36), so
\* calls made from several threads interleave. A step below is one access
\* to the shared state together with the thread-local statements around
\* it; the body of _rotate_to_next_key is a sequence of such steps.

\* Line 143: the flag as the loop reads it at the head of an iteration.
FlagAtLoop_stale == FALSE

FlagAtLoop == _all_keys_exhausted

\* GeminiClient.__init__ as in Construct, for the pools explored under threads.
ConstructConc(c) ==
    /\ Construct(c)
    /\ Len(_api_keys_loaded') <= MaxPoolConc

\* Lines 132-139: enter call_with_retry; the fast path reads the flag.
InvokeConc(c) ==
    /\ inst[c]
    /\ pc[c] = "idle"
    /\ IF AllKeysExhausted
       THEN /\ dispatch' = [dispatch EXCEPT ![c] =
                   [kind |-> "error", val |-> "none", err |-> ExhaustedGlobalError]]
            /\ pc' = [pc EXCEPT ![c] = "raised"]
       ELSE /\ dispatch' = [dispatch EXCEPT ![c] = NoDispatch]
            /\ pc' = [pc EXCEPT ![c] = "loop"]
    /\ UNCHANGED <<shared, inst, rot, retries, attempt, client, key_name, last_error,
                   outcome, result, log, start>>

\* Lines 141-150: the iteration head; a None client calls the rotation.
LoopHeadConc(c) ==
    /\ pc[c] = "loop"
    /\ attempt[c] < retries[c]
    /\ IF FlagAtLoop
       THEN /\ dispatch' = [dispatch EXCEPT ![c] =
                  [kind |-> "error", val |-> "none", err |-> ExhaustedGlobalError]]
            /\ pc' = [pc EXCEPT ![c] = "raised"]
            /\ UNCHANGED client
       ELSE IF _get_current_client = "None"
       THEN /\ pc' = [pc EXCEPT ![c] = "skip"]
            /\ UNCHANGED <<client, dispatch>>
       ELSE /\ client' = [client EXCEPT ![c] = _get_current_client]
            /\ pc' = [pc EXCEPT ![c] = "try"]
            /\ UNCHANGED dispatch
    /\ UNCHANGED <<shared, inst, rot, retries, attempt, key_name, last_error, outcome,
                   result, log, start>>

\* Lines 158-180 and 194-197: the remote call and the handling of what it
\* returned or raised: the failure count of key_name is reset or bumped.
CallConc(c) ==
    /\ pc[c] = "call"
    /\ \E o \in {"success", "quota", "error"} :
          /\ outcome' = [outcome EXCEPT ![c] = o]
          /\ log' = [log EXCEPT ![c] = Append(@, Event("attempt", client[c], o,
                                                       attempt[c]))]
          /\ IF o = "success"
             THEN /\ _shared_key_failures' =
                        Reset(_shared_key_failures, key_name[c])
                  /\ dispatch' = [dispatch EXCEPT ![c] =
                        [kind |-> "response", val |-> client[c], err |-> NoError]]
                  /\ pc' = [pc EXCEPT ![c] = "returned"]
                  /\ UNCHANGED last_error
             ELSE /\ _shared_key_failures' =
                        Bump(_shared_key_failures, key_name[c])
                  /\ last_error' = [last_error EXCEPT ![c] =
                        RemoteError(o, client[c])]
                  /\ IF IsQuota(o)
                     THEN /\ pc' = [pc EXCEPT ![c] = "rotate"]
                          /\ UNCHANGED dispatch
                     ELSE /\ dispatch' = [dispatch EXCEPT ![c] =
                                [kind |-> "error", val |-> "none",
                                 err |-> RemoteError(o, client[c])]]
                          /\ pc' = [pc EXCEPT ![c] = "raised"]
    /\ UNCHANGED <<_api_keys_loaded, _shared_clients, _shared_key_index,
                   _all_keys_exhausted, inst, rot, retries, attempt, client, key_name,
                   result, start>>

\* _rotate_to_next_key returns to its call site. Line 151 continues with
\* the next iteration. Lines 183-192 sleep and go to the next iteration
\* when a key was found, and otherwise set the flag and raise.
RotateReturn(c, site, found) ==
    /\ rot' = [rot EXCEPT ![c] = NoRot]
    /\ IF site = "skip" \/ found
       THEN /\ attempt' = [attempt EXCEPT ![c] = @ + 1]
            /\ pc' = [pc EXCEPT ![c] = "loop"]
            /\ UNCHANGED <<_all_keys_exhausted, dispatch>>
       ELSE /\ _all_keys_exhausted' = Trip(_all_keys_exhausted)
            /\ dispatch' = [dispatch EXCEPT ![c] =
                  [kind |-> "error", val |-> "none", err |-> ExhaustedError]]
            /\ pc' = [pc EXCEPT ![c] = "raised"]
            /\ UNCHANGED attempt

\* Lines 100-106: read original_index and original_key; a pool of at most
\* one key returns False at once.
RotateEnter(c) ==
    /\ pc[c] \in {"rotate", "skip"}
    /\ IF Len(_api_keys_loaded) <= 1
       THEN RotateReturn(c, pc[c], FALSE)
       ELSE /\ rot' = [rot EXCEPT ![c] =
                  [original |-> _get_current_key_name,
                   left |-> Len(_api_keys_loaded) - 1,
                   site |-> pc[c]]]
            /\ pc' = [pc EXCEPT ![c] = "scan"]
            /\ UNCHANGED <<_all_keys_exhausted, attempt, dispatch>>
    /\ UNCHANGED <<_api_keys_loaded, _shared_clients, _shared_key_failures,
                   _shared_key_index, inst, retries, client, key_name,
                   last_error, outcome, result, log, start>>

\* Lines 109-119: one iteration of the scan: advance the shared index and
\* test the key now under it; the loop ends after len - 1 iterations.
RotateIter(c) ==
    /\ pc[c] = "scan"
    /\ IF rot[c].left = 0
       THEN /\ UNCHANGED _shared_key_index
            /\ RotateReturn(c, rot[c].site, FALSE)
       ELSE /\ _shared_key_index' =
                  (_shared_key_index + 1) % Len(_api_keys_loaded)
            /\ LET key == _get_key_name_at(_shared_key_index')
               IN  IF HasClient(key) /\ key # rot[c].original
                   THEN RotateReturn(c, rot[c].site, TRUE)
                   ELSE /\ rot' = [rot EXCEPT ![c].left = @ - 1]
                        /\ UNCHANGED <<pc, _all_keys_exhausted, attempt,
                                       dispatch>>
    /\ UNCHANGED <<_api_keys_loaded, _shared_clients, _shared_key_failures,
                   inst, retries, client, key_name, last_error, outcome,
                   result, log, start>>

\* call_with_retry returned or raised: the stage builds its result from the
\* response or from its fallback and returns; the call's locals die.
Finish(c) ==
    /\ pc[c] \in {"returned", "raised"}
    /\ pc' = [pc EXCEPT ![c] = "idle"]
    /\ attempt' = [attempt EXCEPT ![c] = 0]
    /\ client' = [client EXCEPT ![c] = "None"]
    /\ key_name' = [key_name EXCEPT ![c] = "None"]
    /\ last_error' = [last_error EXCEPT ![c] = NoError]
    /\ outcome' = [outcome EXCEPT ![c] = "none"]
    /\ dispatch' = [dispatch EXCEPT ![c] = NoDispatch]
    /\ log' = [log EXCEPT ![c] = <<>>]
    /\ UNCHANGED <<shared, inst, rot, retries, result, start>>

NextConc ==
    \E c \in Callers :
        \/ ConstructConc(c)
        \/ InvokeConc(c)
        \/ LoopExit(c)
        \/ LoopHeadConc(c)
        \/ ReadKeyName(c)
        \/ CallConc(c)
        \/ RotateEnter(c)
        \/ RotateIter(c)
        \/ Finish(c)

SpecConc == Init /\ [][NextConc]_vars

\* ------------------------------------------------- reading a call's log
IsAttempt(e) == e.ev = "attempt"
IsSleep(e) == e.ev = "sleep"
IsRotate(e) == e.ev = "rotate"

\* The remote attempts of caller c's current call, in order.
Attempts(c) == SelectSeq(log[c], IsAttempt)
Sleeps(c) == SelectSeq(log[c], IsSleep)
Rotations(c) == SelectSeq(log[c], IsRotate)

\* call_with_retry has returned or raised in caller c's current call.
Over(c) == pc[c] \in {"returned", "raised", "done"}

\* Every attempt of the current call got a quota error.
OnlyQuota(c) == \A i \in 1..Len(log[c]) :
                   log[c][i].ev = "attempt" => log[c][i].info = "quota"

\* Every loaded key has a client.
AllUsable == \A i \in 1..Len(_api_keys_loaded) :
                _api_keys_loaded[i] \in DOMAIN _shared_clients
                /\ _shared_clients[_api_keys_loaded[i]]

FallbackSources == {"enhanced_mock", "rule_fallback"}

\* ---------------------------------------------------------------- C1
\* C1: a call that begins when the exhaustion flag is set makes no remote
\* attempt, fails with the global-state error of the fast path, and the
\* stage returns its fallback result.
C1_FastPathAfterTrip ==
    \A c \in Callers :
        start[c].exhausted =>
            /\ Attempts(c) = <<>>
            /\ pc[c] \in {"raised", "done"}
            /\ dispatch[c].kind = "error"
            /\ dispatch[c].err = ExhaustedGlobalError
            /\ pc[c] = "done" => result[c].source \in FallbackSources

C1_Witness ==
    \E c \in Callers :
        /\ pc[c] = "done"
        /\ start[c].exhausted
        /\ result[c].source \in FallbackSources

\* ---------------------------------------------------------------- C2
\* C2: with N >= 2 keys that all answer with a quota error, one call
\* attempts N keys, each once, fails with the all-keys-exhausted error of
\* line 187 and leaves the flag set.
C2_TriesEachKeyOnceThenTrips ==
    \A c \in Callers :
        ( /\ Over(c)
          /\ ~start[c].exhausted
          /\ Len(_api_keys_loaded) >= 2
          /\ AllUsable
          /\ OnlyQuota(c) )
        => /\ Len(Attempts(c)) = Len(_api_keys_loaded)
           /\ \A i, j \in 1..Len(Attempts(c)) :
                 i # j => Attempts(c)[i].key # Attempts(c)[j].key
           /\ dispatch[c].err = ExhaustedError
           /\ _all_keys_exhausted

\* ---------------------------------------------------------------- C3
\* C3: a stage's gemini step always ends with a result, never with an
\* exception, and the result is the fallback's whenever call_with_retry
\* raised, whatever it raised.
C3_StageNeverRaises ==
    \A c \in Callers :
        pc[c] = "done" =>
            /\ result[c].source \in {"gemini_api"} \cup FallbackSources
            /\ dispatch[c].kind = "error" => result[c].source \in FallbackSources

C3_Witness ==
    \E c \in Callers :
        /\ pc[c] = "done"
        /\ dispatch[c].kind = "error"
        /\ dispatch[c].err.kind = "error"
        /\ result[c].source \in FallbackSources

\* ---------------------------------------------------------------- C4
\* C4: handling a non-quota error ends the call at once with that error:
\* the key index, the flag and the log (no rotation, no sleep, no further
\* attempt) are unchanged by the step, and a call that ended with a
\* non-quota error has the failed attempt as its last event.
C4_Step(c) ==
    (pc[c] = "except" /\ outcome[c] = "error" /\ pc'[c] # "except")
    => /\ pc'[c] = "raised"
       /\ dispatch'[c].kind = "error"
       /\ dispatch'[c].err = RemoteError("error", client[c])
       /\ _shared_key_index' = _shared_key_index
       /\ _all_keys_exhausted' = _all_keys_exhausted
       /\ log'[c] = log[c]

C4_End(c) ==
    (Over(c) /\ Len(log[c]) > 0
      /\ log[c][Len(log[c])].ev = "attempt"
      /\ log[c][Len(log[c])].info = "error")
    => /\ dispatch[c].kind = "error"
       /\ dispatch[c].err = RemoteError("error", log[c][Len(log[c])].key)
       /\ _get_current_key_name = log[c][Len(log[c])].key

C4_NonQuotaFailsAtOnce ==
    /\ [][\A c \in Callers : C4_Step(c)]_vars
    /\ [](\A c \in Callers :
            /\ C4_End(c)
            /\ \A i \in 1..Len(log[c]) :
                  (log[c][i].ev = "attempt" /\ log[c][i].info = "error")
                  => i = Len(log[c]))

C4_Witness ==
    \E c \in Callers :
        /\ pc[c] = "raised"
        /\ dispatch[c].err.kind = "error"
        /\ Len(Attempts(c)) = 2
        /\ ~_all_keys_exhausted

\* ---------------------------------------------------------------- C5
\* C5: keys [A, B, C], A current, all answering with a quota error: one
\* call attempts A, B, C in that order, then declares exhaustion, and no
\* rotation of the call puts the index back on A.
C5_RotationNeverReturnsToFirst ==
    \A c \in Callers :
        ( /\ Over(c)
          /\ ~start[c].exhausted
          /\ start[c].index = 0
          /\ Len(_api_keys_loaded) = 3
          /\ AllUsable
          /\ OnlyQuota(c) )
        => /\ [i \in 1..Len(Attempts(c)) |-> Attempts(c)[i].key]
                 = <<"PRIMARY", "BACKUP_1", "BACKUP_2">>
           /\ dispatch[c].err = ExhaustedError
           /\ \A i \in 1..Len(log[c]) :
                 log[c][i].ev = "rotate" => log[c][i].info # "PRIMARY"

\* ---------------------------------------------------------------- C6
\* C6: with at least one key loaded, one call makes at most len(pool)
\* remote attempts.
C6_AttemptsBoundedByPool ==
    \A c \in Callers :
        Len(_api_keys_loaded) >= 1 => Len(Attempts(c)) <= Len(_api_keys_loaded)

\* ---------------------------------------------------------------- C7
\* C7: keys [PRIMARY, BACKUP_1], PRIMARY current and answering with quota
\* errors, BACKUP_1 answering with responses: the call returns BACKUP_1's
\* response after the attempts PRIMARY, BACKUP_1, one rotation and one
\* sleep between them, and the flag stays clear.
C7_Scenario(c) ==
    /\ Over(c)
    /\ _api_keys_loaded = <<"PRIMARY", "BACKUP_1">>
    /\ AllUsable
    /\ start[c] = [index |-> 0, exhausted |-> FALSE]
    /\ \A i \in 1..Len(log[c]) :
          log[c][i].ev = "attempt" =>
              log[c][i].info = (IF log[c][i].key = "PRIMARY" THEN "quota"
                                ELSE "success")

C7_RotateOnceThenSucceed ==
    \A c \in Callers :
        C7_Scenario(c) =>
            /\ dispatch[c] = [kind |-> "response", val |-> "BACKUP_1",
                              err |-> NoError]
            /\ log[c] = << Event("attempt", "PRIMARY", "quota", 0),
                           Event("rotate", "PRIMARY", "BACKUP_1", 1),
                           Event("sleep", "none", "none", 1),
                           Event("attempt", "BACKUP_1", "success", 1) >>
            /\ ~_all_keys_exhausted

C7_Witness ==
    \E c \in Callers :
        /\ C7_Scenario(c)
        /\ pc[c] = "returned"
        /\ Len(Attempts(c)) = 2

\* ---------------------------------------------------------------- C8
\* C8: a single usable key answering with a quota error: the call fails
\* with the all-keys-exhausted error after one attempt, the index is not
\* moved, nothing is slept, and the flag is set.
C8_Scenario(c) ==
    /\ Over(c)
    /\ Len(_api_keys_loaded) = 1
    /\ AllUsable
    /\ ~start[c].exhausted
    /\ OnlyQuota(c)

C8_SingleKeyTripsAtOnce ==
    \A c \in Callers :
        C8_Scenario(c) =>
            /\ dispatch[c].kind = "error"
            /\ dispatch[c].err = ExhaustedError
            /\ Len(Attempts(c)) = 1
            /\ Sleeps(c) = <<>>
            /\ \A i \in 1..Len(log[c]) : log[c][i].ev = "rotate" => log[c][i].n = 0
            /\ _shared_key_index = start[c].index
            /\ _all_keys_exhausted

C8_Witness ==
    \E c \in Callers :
        /\ C8_Scenario(c)
        /\ pc[c] = "raised"
        /\ Len(Attempts(c)) = 1

\* ---------------------------------------------------------------- C9
\* C9: the exhaustion flag starts clear and no step clears it once set.
C9_FlagIsLatch ==
    /\ ~_all_keys_exhausted
    /\ [][_all_keys_exhausted => _all_keys_exhausted']_vars

C9_Witness ==
    /\ _all_keys_exhausted
    /\ \A c \in Callers : inst[c]
    /\ \E c \in Callers : pc[c] = "raised" /\ start[c].exhausted

\* ---------------------------------------------------------------- C10
\* C10: when the pool is usable and every attempt gets a quota error, the
\* flag is eventually set.
C10_Premise ==
    /\ (\E c \in Callers : inst[c]) =>
           (Len(_api_keys_loaded) >= 1 /\ AllUsable)
    /\ \A c \in Callers : OnlyQuota(c)

C10_QuotaEventuallyTrips == <>(_all_keys_exhausted \/ ~C10_Premise)

\* Some loaded key has a client.
SomeUsable == \E i \in 1..Len(_api_keys_loaded) :
                 _api_keys_loaded[i] \in DOMAIN _shared_clients
                 /\ _shared_clients[_api_keys_loaded[i]]

\* The names of the loaded keys.
LoadedNames == {_api_keys_loaded[i] : i \in 1..Len(_api_keys_loaded)}

\* ---------------------------------------------------------------- C11
\* C11: no client instance exists, and no call is in progress, while the
\* pool is empty: loading zero keys fails at initialisation.
C11_NoInstanceOnEmptyPool ==
    \A c \in Callers :
        (inst[c] \/ pc[c] # "idle") => Len(_api_keys_loaded) >= 1

C13_Step(c) ==
    (pc[c] = "ok" /\ pc'[c] = "returned")
    => /\ _shared_key_failures'[client[c]] = 0
       /\ \A k \in DOMAIN _shared_key_failures :
             k # client[c] => _shared_key_failures'[k] = _shared_key_failures[k]
       /\ DOMAIN _shared_key_failures' = DOMAIN _shared_key_failures
       /\ _shared_clients' = _shared_clients

C13_SuccessResetsFailures == [][\A c \in Callers : C13_Step(c)]_vars

\* A key failed earlier in the call, then answered: its count is 0 while
\* another key still carries failures.
C13_Witness ==
    \E c \in Callers :
        /\ pc[c] = "returned"
        /\ \E i \in 1..Len(log[c]) :
              /\ log[c][i].ev = "attempt"
              /\ log[c][i].key = client[c]
              /\ log[c][i].info = "quota"
        /\ _shared_key_failures[client[c]] = 0
        /\ \E k \in DOMAIN _shared_key_failures : _shared_key_failures[k] = 2

\* ---------------------------------------------------------------- C15
\* C15: every sleep of a call follows a rotation after an attempt that got
\* a quota error and is followed by an attempt on another key; a call that
\* is over does not end on a sleep.
C15_SleepAt(c, i) ==
    /\ i >= 3
    /\ log[c][i - 1].ev = "rotate"
    /\ log[c][i - 2].ev = "attempt"
    /\ log[c][i - 2].info = "quota"
    /\ Over(c) =>
          /\ i < Len(log[c])
          /\ log[c][i + 1].ev = "attempt"
          /\ log[c][i + 1].key # log[c][i - 2].key

C15_SleepOnlyBetweenAttempts ==
    \A c \in Callers :
        \A i \in 1..Len(log[c]) :
            log[c][i].ev = "sleep" => C15_SleepAt(c, i)

\* ---------------------------------------------------------------- C16
\* C16: whenever the pool holds a usable key, the key index designates a
\* key whose client was built.
C16_IndexOnUsableKey ==
    SomeUsable =>
        /\ _shared_key_index < Len(_api_keys_loaded)
        /\ _api_keys_loaded[_shared_key_index + 1] \in DOMAIN _shared_clients
        /\ _shared_clients[_api_keys_loaded[_shared_key_index + 1]]

\* ---------------------------------------------------------------- C20
\* C20: no step of a call that began with the flag set changes the key
\* index, a failure count, the flag, the keys or the clients.
C20_Step(c) ==
    ( \/ start[c].exhausted
      \/ (pc[c] = "idle" /\ pc'[c] # "idle" /\ _all_keys_exhausted) )
    => /\ _shared_key_index' = _shared_key_index
       /\ _shared_key_failures' = _shared_key_failures
       /\ _all_keys_exhausted' = _all_keys_exhausted
       /\ _api_keys_loaded' = _api_keys_loaded
       /\ _shared_clients' = _shared_clients

C20_FastPathLeavesPoolUnchanged == [][\A c \in Callers : C20_Step(c)]_vars

\* A call that began with the flag set is over, on a pool of two keys
\* whose index is off the first key and whose first key carries a failure.
C20_Witness ==
    \E c \in Callers :
        /\ pc[c] = "done"
        /\ start[c].exhausted
        /\ Len(_api_keys_loaded) = 2
        /\ _shared_key_index = 1
        /\ start[c].index = 1
        /\ _shared_key_failures["PRIMARY"] = 1

\* ----------------------------------------- claims about calls on threads
\* Position of a loaded key in the pool, and the key after it (line 110).
KeyPos(name) ==
    CHOOSE i \in 0..(Len(_api_keys_loaded) - 1) : _api_keys_loaded[i + 1] = name

Successor(name) ==
    _get_key_name_at((KeyPos(name) + 1) % Len(_api_keys_loaded))

\* The caller's rotation found no key: it sets the flag and raises.
TripStep(c) == pc[c] \in {"rotate", "scan"} /\ pc'[c] = "raised"

\* The keys the caller's current call attempted and got a quota error from.
QuotaKeys(c) ==
    {log[c][i].key : i \in {j \in 1..Len(log[c]) :
                                log[c][j].ev = "attempt"
                                /\ log[c][j].info = "quota"}}

\* ---------------------------------------------------------------- C14
\* C14: a caller that finds no key while the flag is already set leaves
\* the flag set and raises the same exhaustion error as the first one did.
C14_TripIsIdempotent ==
    [][\A c \in Callers :
          (TripStep(c) /\ _all_keys_exhausted)
          => /\ _all_keys_exhausted'
             /\ dispatch'[c].err = ExhaustedError
             /\ UNCHANGED <<_api_keys_loaded, _shared_clients,
                            _shared_key_failures, _shared_key_index>>]_vars

C14_Witness ==
    \E c, d \in Callers :
        /\ c # d
        /\ _all_keys_exhausted
        /\ pc[c] = "raised" /\ dispatch[c].err = ExhaustedError
        /\ pc[d] = "raised" /\ dispatch[d].err = ExhaustedError

\* ---------------------------------------------------------------- C17
\* C17: once the flag is set, a caller that reaches its next check (the
\* fast path on entry or the head of a loop iteration) raises the
\* exhaustion error there, and a caller that has raised makes no attempt.
C17_Check(c) ==
    \/ pc[c] = "idle" /\ pc'[c] # "idle"
    \/ pc[c] = "loop" /\ attempt[c] < retries[c] /\ pc'[c] # "loop"

C17_TripSeenAtNextCheck ==
    [][\A c \in Callers :
          /\ (_all_keys_exhausted /\ C17_Check(c))
             => /\ pc'[c] = "raised"
                /\ dispatch'[c].err = ExhaustedGlobalError
                /\ log'[c] = log[c]
          /\ pc[c] = "raised"
             => /\ pc'[c] \in {"raised", "idle"}
                /\ log'[c] \in {log[c], <<>>}]_vars

C17_Witness ==
    \E c, d \in Callers :
        /\ c # d
        /\ pc[d] = "raised" /\ dispatch[d].err = ExhaustedError
        /\ pc[c] = "raised" /\ dispatch[c].err = ExhaustedGlobalError
        /\ Len(log[c]) >= 1

\* ---------------------------------------------------------------- C18
\* C18: when two overlapping calls both got a quota error from the same
\* key and both have rotated, the index is on that key's successor.
C18_Rotated(c, S) ==
    /\ pc[c] = "loop"
    /\ log[c] # <<>>
    /\ log[c][Len(log[c])].key = S
    /\ log[c][Len(log[c])].info = "quota"
    /\ attempt[c] = log[c][Len(log[c])].n + 1

C18_IndexAdvancedOnce ==
    \A c, d \in Callers : \A S \in LoadedNames :
        (c # d /\ AllUsable /\ C18_Rotated(c, S) /\ C18_Rotated(d, S))
        => _get_current_key_name = Successor(S)

\* ---------------------------------------------------------------- C19
\* C19: a caller that set the flag has, in the same call, attempted every
\* usable key and got a quota error from each.
C19_TripOnlyAfterFullCycle ==
    \A c \in Callers :
        (pc[c] = "raised" /\ dispatch[c].err = ExhaustedError)
        => \A k \in LoadedNames : HasClient(k) => k \in QuotaKeys(c)

\* ---------------------------------------------------------------- C21
\* C21: when the for loop runs out, the call raises the error of its last
\* remote attempt, or the generic error when it made no attempt, and the
\* exhaustion flag is not set.
C21_LoopEnds(c) ==
    pc[c] = "loop" /\ attempt[c] >= retries[c] /\ pc'[c] = "raised"

C21_LastErrorRaised ==
    [][\A c \in Callers :
          C21_LoopEnds(c)
          => /\ dispatch'[c].kind = "error"
             /\ dispatch'[c].err =
                  (IF Attempts(c) = <<>>
                   THEN [kind |-> "all_retries_failed", key |-> "none"]
                   ELSE [kind |-> Attempts(c)[Len(Attempts(c))].info,
                         key |-> Attempts(c)[Len(Attempts(c))].key])
             /\ ~_all_keys_exhausted']_vars

C21_Witness ==
    \E c \in Callers :
        /\ pc[c] = "raised"
        /\ attempt[c] = retries[c]
        /\ Len(Attempts(c)) >= 2
        /\ dispatch[c].err.kind = "quota"
        /\ dispatch[c].err.key = Attempts(c)[Len(Attempts(c))].key
        /\ ~_all_keys_exhausted

\* ---------------------------------------------------------------- C22
\* C22: once the pool is loaded, no step (attempt, quota error, other
\* error, success, rotation) changes which keys have a client.
C22_UsableSetFixed ==
    [][(\E c \in Callers : inst[c])
       => UNCHANGED <<_api_keys_loaded, _shared_clients>>]_vars

C22_Witness ==
    \E c \in Callers :
        /\ Len(Rotations(c)) >= 1
        /\ \E i \in 1..Len(log[c]) :
              log[c][i].ev = "attempt" /\ log[c][i].info = "quota"
                 /\ _shared_clients[log[c][i].key]
        /\ SomeUsable
        /\ ~AllUsable

\* ---------------------------------------------------------------- C23
\* C23: the index is shared and kept between calls and instances: it moves
\* only when a caller rotates after a quota error or off a key without a
\* client; a call's first attempt goes to the key the index was on when
\* the call began; after a success the index is on the key that succeeded.
C23_Moves(c) ==
    \/ pc[c] = "rotate" /\ outcome[c] = "quota"
    \/ pc[c] = "loop" /\ ~HasClient(_get_current_key_name)

C23_IndexIsSticky ==
    /\ [][_shared_key_index' # _shared_key_index
           => \E c \in Callers : C23_Moves(c) /\ pc'[c] # "idle"]_vars
    /\ [](\A c \in Callers :
            /\ (Len(Attempts(c)) >= 1
                 /\ HasClient(_get_key_name_at(start[c].index)))
               => Attempts(c)[1].key = _get_key_name_at(start[c].index)
            /\ pc[c] = "returned"
               => _get_current_key_name = Attempts(c)[Len(Attempts(c))].key)

C23_Witness ==
    \E c, d \in Callers :
        /\ c # d
        /\ inst[d]
        /\ pc[c] = "returned"
        /\ start[c].index >= 1
        /\ Len(Attempts(c)) = 1
        /\ HasClient(_api_keys_loaded[1])
        /\ _shared_key_failures[_api_keys_loaded[1]] >= 1

\* ---------------------------------------------------------------- C24
\* C24: the base delay has a maximum that does not depend on max_retries:
\* it stops growing within the retry counts explored, so a call that
\* sleeps MaxRetriesArg times has slept its last delay before.
C24_DelayCapped ==
    \A c \in Callers :
        Len(Sleeps(c)) = MaxRetriesArg
        => \E j \in 1..(Len(Sleeps(c)) - 1) :
              Sleeps(c)[j].n = Sleeps(c)[Len(Sleeps(c))].n

C26_Keys(c) == {Attempts(c)[i].key : i \in 1..Len(Attempts(c))}

C27_CountGoesToAttemptedKey ==
    [][\A c \in Callers :
          (pc[c] = "call" /\ pc'[c] # "call")
          => \A k \in DOMAIN _shared_key_failures :
                k # client[c]
                => _shared_key_failures'[k] = _shared_key_failures[k]]_vars

\* ---------------------------------------------------------------- C28
\* C28: with one call at a time a key's failure count (counted up to
\* MaxFailures) goes up by one when an attempt on that key fails with a
\* quota error or with another error, becomes 0 when an attempt on it
\* succeeds, starts at 0 when the pool is loaded, and no other step
\* (rotation, fast path, skipping a key without a client) changes it.
C28_Failed(c, k) == pc[c] = "except" /\ pc'[c] # "except" /\ client[c] = k

C28_Succeeded(c, k) == pc[c] = "ok" /\ pc'[c] # "ok" /\ client[c] = k

C28_CountFollowsAttempts ==
    [][/\ \A k \in DOMAIN _shared_key_failures' \ DOMAIN _shared_key_failures :
             _shared_key_failures'[k] = 0
       /\ \A k \in DOMAIN _shared_key_failures :
             /\ k \in DOMAIN _shared_key_failures'
             /\ _shared_key_failures'[k] =
                  IF \E c \in Callers : C28_Failed(c, k)
                  THEN IF _shared_key_failures[k] < MaxFailures
                       THEN _shared_key_failures[k] + 1
                       ELSE _shared_key_failures[k]
                  ELSE IF \E c \in Callers : C28_Succeeded(c, k)
                  THEN 0
                  ELSE _shared_key_failures[k]]_vars

C28_Witness ==
    \E c \in Callers :
        /\ pc[c] = "raised"
        /\ Len(Attempts(c)) >= 1
        /\ dispatch[c].err.kind = "error"
        /\ _shared_key_failures[dispatch[c].err.key] >= 2
        /\ \E k \in DOMAIN _shared_key_failures :
              _shared_key_failures[k] = 0 /\ HasClient(k)

\* ---------------------------------------------------------------- C29
\* C29: no remote attempt goes through a key without a client; an
\* iteration that finds the current key without a client rotates, makes
\* no attempt, does not sleep, changes no failure count and uses up one
\* of the call's iterations.
C29_Skips(c) ==
    /\ pc[c] = "loop"
    /\ attempt[c] < retries[c]
    /\ ~_all_keys_exhausted
    /\ ~HasClient(_get_current_key_name)
    /\ (pc'[c] # pc[c] \/ attempt'[c] # attempt[c])

C29_NoAttemptWithoutClient ==
    /\ [](\A c \in Callers : \A i \in 1..Len(log[c]) :
             log[c][i].ev = "attempt" => HasClient(log[c][i].key))
    /\ [][\A c \in Callers :
             C29_Skips(c)
             => /\ pc'[c] = "loop"
                /\ attempt'[c] = attempt[c] + 1
                /\ Len(log'[c]) = Len(log[c]) + 1
                /\ log'[c][Len(log'[c])].ev = "skip"
                /\ _shared_key_index' = _rotate_to_next_key.index
                /\ UNCHANGED <<_shared_key_failures, _all_keys_exhausted>>]_vars

C29_Witness ==
    \E c \in Callers :
        /\ Len(log[c]) >= 2
        /\ log[c][1].ev = "skip"
        /\ log[c][2].ev = "attempt"
        /\ log[c][2].n = 1

\* ---------------------------------------------------------------- C30
\* C30: when no loaded key has a client (or no key is loaded) a call makes
\* no remote attempt, uses its max_retries iterations on skips, raises the
\* generic error, never sets the flag, and the stage returns its fallback.
C30_OnlySkips(c) ==
    /\ Len(log[c]) = max_retries
    /\ \A i \in 1..Len(log[c]) : log[c][i].ev = "skip"

C30_NoUsableKeyNeverTrips ==
    ((\E d \in Callers : inst[d]) /\ ~SomeUsable)
    => /\ ~_all_keys_exhausted
       /\ \A c \in Callers :
             /\ Attempts(c) = <<>>
             /\ pc[c] \in {"raised", "done"}
                => /\ dispatch[c].err =
                        [kind |-> "all_retries_failed", key |-> "none"]
                   /\ C30_OnlySkips(c)
             /\ pc[c] = "done" => result[c].source \in FallbackSources

C30_Witness ==
    \E c \in Callers :
        /\ ~SomeUsable
        /\ Len(_api_keys_loaded) >= 2
        /\ pc[c] = "done"
        /\ start[c].index # 0
        /\ ~start[c].exhausted
        /\ C30_OnlySkips(c)
        /\ result[c].source \in FallbackSources

====
